---- MODULE Spec2Model ----
(***************************************************************************)
(* configGenerator.py: the batch script that lists the .ogg files of the   *)
(* sounds folder, computes each file's duration with calculate_duration    *)
(* (Ogg/Vorbis header and last-page parsing on raw bytes) and writes one   *)
(* CfgSounds class per file into description.ext.                          *)
(*                                                                         *)
(* Offsets are 0-based as in the Python source; TLA+ sequences are         *)
(* 1-based, so byte offset i of a buffer b is b[i + 1].                    *)
(*                                                                         *)
(* Python integers are unbounded.  The values parsed from the file         *)
(* (version, sample rate, granule position) are therefore kept as          *)
(* naturals in base 256, least significant digit first, without high zero *)
(* digits ("Big" numbers): <<>> is 0, <<64, 31>> is 8000.                  *)
(***************************************************************************)
EXTENDS Integers, Sequences, FiniteSets, TLC

VARIABLES ogg_files, it, pc, handle, cursor, frame, result, out, console

vars == <<ogg_files, it, pc, handle, cursor, frame, result, out, console>>

-----------------------------------------------------------------------------
(* Bounds of the model *)

\* Longest directory listing made of more than one file.
MaxFiles == 3

-----------------------------------------------------------------------------
(* Program constants *)

\* f.read(8192): size of the header scratch buffer.
HEADER_READ == 8192

\* min(file_size, 65536): size of the tail search window.
TAIL_SEARCH == 65536

\* Sanity bounds of the sample rate.
MIN_SAMPLE_RATE == 8000

MAX_SAMPLE_RATE == 192000

\* f.seek(6, 1): offset of the granule position in a page header.
GRANULE_OFFSET == 6

\* f.read(8): width of the granule position.
GRANULE_WIDTH == 8

\* b'OggS'
OggS == <<79, 103, 103, 83>>

\* The byte 1 (header packet type) followed by b'vorbis'.
PACKET_TYPE_ID == 1

Vorbis == <<118, 111, 114, 98, 105, 115>>

-----------------------------------------------------------------------------
(* Python primitives used by the script *)

Min(a, b) == IF a <= b THEN a ELSE b

Max(a, b) == IF a >= b THEN a ELSE b

\* b[lo:hi] for 0 <= lo, 0 <= hi: the slice is clipped to the buffer.
PySlice(b, lo, hi) == SubSeq(b, lo + 1, Min(hi, Len(b)))

RECURSIVE StripHighZeros(_)
StripHighZeros(b) ==
    IF b = <<>> THEN <<>>
    ELSE IF b[Len(b)] = 0 THEN StripHighZeros(SubSeq(b, 1, Len(b) - 1))
    ELSE b

\* int.from_bytes(b, 'little'), as a Big number.  A short or empty slice
\* is accepted: int.from_bytes(b'', 'little') is 0.
FromBytesLittle(b) == StripHighZeros(b)

\* The Big number of a small natural.
RECURSIVE Big(_)
Big(n) == IF n = 0 THEN <<>> ELSE <<n % 256>> \o Big(n \div 256)

\* The value of a Big number of at most three digits.
RECURSIVE ToInt(_)
ToInt(d) == IF d = <<>> THEN 0 ELSE d[1] + 256 * ToInt(Tail(d))

\* a <= b on Big numbers.
BigLeq(a, b) ==
    \/ Len(a) < Len(b)
    \/ /\ Len(a) = Len(b)
       /\ \/ a = b
          \/ \E i \in 1..Len(a) :
                /\ a[i] < b[i]
                /\ \A j \in (i + 1)..Len(a) : a[j] = b[j]

RECURSIVE GCD(_, _)
GCD(a, b) == IF b = 0 THEN a ELSE GCD(b, a % b)

\* Long division of the Big number g by the small positive r, from the
\* most significant digit i down to 1; q collects the quotient digits.
RECURSIVE LongDiv(_, _, _, _, _)
LongDiv(g, i, rem, r, q) ==
    IF i = 0 THEN [quot |-> StripHighZeros(q), rem |-> rem]
    ELSE LET cur == rem * 256 + g[i]
         IN  LongDiv(g, i - 1, cur % r, r, <<cur \div r>> \o q)

\* Floor division (granule // sample_rate) in place of true division.
TrueDivFloor(granule, sample_rate) ==
    LET r == ToInt(sample_rate)
        d == LongDiv(granule, Len(granule), 0, r, <<>>)
    IN  [whole |-> d.quot, num |-> 0, den |-> 1]

\* granule / sample_rate (true division of two ints).  The float returned
\* by Python is the correctly rounded value of the exact quotient; the
\* quotient is kept exactly, as whole + num/den with num/den in lowest
\* terms and 0 <= num < den.
TrueDiv(granule, sample_rate) ==
    LET r == ToInt(sample_rate)
        d == LongDiv(granule, Len(granule), 0, r, <<>>)
        g == GCD(r, d.rem)
    IN  [whole |-> d.quot, num |-> d.rem \div g, den |-> r \div g]

\* The offsets where sub occurs in data.
Occurrences(data, sub) ==
    {i \in 0..(Len(data) - Len(sub)) :
        /\ data[i + 1] = sub[1]
        /\ PySlice(data, i, i + Len(sub)) = sub}

SetMax(S) == CHOOSE m \in S : \A n \in S : n <= m

SetMin(S) == CHOOSE m \in S : \A n \in S : m <= n

-----------------------------------------------------------------------------
(* The sounds folder: the files the script is run on.                      *)
(*                                                                         *)
(* Files are built from Ogg pages and Vorbis identification packets laid   *)
(* out as the format lays them out.                                        *)

Zeros(n) == [i \in 1..n |-> 0]

\* The four little-endian bytes of n, 0 <= n < 2^31.
LE4(n) ==
    <<n % 256, (n \div 256) % 256, (n \div 65536) % 256, n \div 16777216>>

\* The eight little-endian bytes of n, 0 <= n < 2^31.
LE8(n) == LE4(n) \o Zeros(4)

\* Identification packet: type, 'vorbis', version(4), channels(1),
\* sample_rate(4), three bitrates(12), blocksizes(1), framing(1).
IdPacket(version4, channels, rate4) ==
    <<PACKET_TYPE_ID>> \o Vorbis \o version4 \o <<channels>> \o rate4
        \o <<0, 238, 2, 0, 0, 119, 1, 0, 0, 250, 0, 0, 184, 1>>

\* Ogg page header: capture pattern, stream version, header type,
\* granule(8), serial(4), sequence(4), checksum(4), segment count.
PageHeader(flags, granule8, segments) ==
    OggS \o <<0, flags>> \o granule8 \o <<7, 7, 7, 7>> \o <<0, 0, 0, 0>>
        \o <<9, 9, 9, 9>> \o <<segments>>

\* First page of a stream: 27 + 1 + 30 = 58 bytes.
FirstPage(version4, channels, rate4) ==
    PageHeader(2, Zeros(8), 1) \o <<30>> \o IdPacket(version4, channels, rate4)

\* Last page of a stream, without payload: 27 bytes.
LastPage(granule8) == PageHeader(4, granule8, 0)

Stream(version4, channels, rate4, granule8) ==
    FirstPage(version4, channels, rate4) \o LastPage(granule8)

File(n, b) == [name |-> n, fault |-> "none", bytes |-> b]

Faulty(n, f) == [name |-> n, fault |-> f, bytes |-> <<>>]

V0 == Zeros(4)

\* fault: "none"; "missing" (listed, but open() finds no file, as for a
\* dangling link); "open" (open() fails with another OSError, as for a
\* folder named *.ogg); "read" (the first read fails with an OSError).
Files ==
    << File("cd_50s.ogg", Stream(V0, 2, LE4(44100), LE8(2205000))),
       File("rate_8000.ogg", Stream(V0, 1, LE4(8000), LE8(12345))),
       File("rate_192000.ogg",
            Stream(V0, 2, LE4(192000), <<255, 255, 255, 255, 255, 255, 255, 255>>)),
       File("rate_7999.ogg", Stream(V0, 2, LE4(7999), LE8(2205000))),
       File("bad_signature.ogg",
            <<79, 103, 103, 88>>
                \o Tail(Tail(Tail(Tail(Stream(V0, 2, LE4(44100), LE8(2205000))))))),
       Faulty("dangling.ogg", "missing"),
       Faulty("unreadable.ogg", "open"),
       Faulty("io_error.ogg", "read"),
       File("rate_192001.ogg", Stream(V0, 2, LE4(192001), LE8(2205000))),
       File("rate_0.ogg", Stream(V0, 2, LE4(0), LE8(2205000))),
       File("rate_wide.ogg", Stream(V0, 2, <<68, 172, 0, 128>>, LE8(2205000))),
       File("version_1.ogg", Stream(LE4(1), 2, LE4(44100), LE8(2205000))),
       File("version_high_rate_0.ogg",
            Stream(<<0, 0, 0, 1>>, 2, LE4(0), LE8(2205000))),
       File("three_bytes.ogg", <<79, 103, 103>>),
       File("empty.ogg", <<>>),
       File("no_vorbis.ogg", PageHeader(2, Zeros(8), 0) \o LastPage(LE8(2205000))),
       File("two_headers.ogg",
            FirstPage(V0, 2, LE4(48000)) \o IdPacket(V0, 1, LE4(8000))
                \o LastPage(LE8(96000))),
       File("bad_then_good_header.ogg",
            FirstPage(LE4(1), 2, LE4(44100)) \o IdPacket(V0, 2, LE4(44100))
                \o LastPage(LE8(2205000))),
       File("twenty_bytes.ogg",
            OggS \o <<PACKET_TYPE_ID>> \o Vorbis \o V0 \o <<2>> \o LE4(44100)),
       File("rate_cut_by_eof.ogg",
            OggS \o <<PACKET_TYPE_ID>> \o Vorbis \o V0 \o <<2>> \o <<64, 31>>),
       File("version_cut_zero.ogg",
            OggS \o <<PACKET_TYPE_ID>> \o Vorbis \o <<0, 0>>),
       File("version_cut_nonzero.ogg",
            OggS \o <<PACKET_TYPE_ID>> \o Vorbis \o <<0, 1>>),
       File("marker_at_eof.ogg", OggS \o <<PACKET_TYPE_ID>> \o Vorbis),
       File("channels_cut.ogg", OggS \o <<PACKET_TYPE_ID>> \o Vorbis \o V0),
       File("granule_cut.ogg",
            FirstPage(V0, 2, LE4(44100)) \o OggS \o <<0, 4>> \o <<1, 2, 3>>),
       File("page_at_eof.ogg", FirstPage(V0, 2, LE4(44100)) \o OggS),
       File("three_pages.ogg",
            FirstPage(V0, 2, LE4(44100)) \o LastPage(LE8(9999999))
                \o LastPage(LE8(441000))),
       File("oggs_in_granule.ogg",
            FirstPage(V0, 2, LE4(44100))
                \o LastPage(<<79, 103, 103, 83, 0, 0, 0, 0>>)),
       File("long_tail.ogg",
            FirstPage(V0, 2, LE4(44100)) \o LastPage(LE8(9999999))
                \o Zeros(TAIL_SEARCH) \o LastPage(LE8(2205000)) \o Zeros(10)),
       File("no_page_in_tail.ogg",
            Stream(V0, 2, LE4(44100), LE8(2205000)) \o Zeros(TAIL_SEARCH)),
       File("page_straddles_tail.ogg",
            Stream(V0, 2, LE4(44100), LE8(2205000)) \o Zeros(TAIL_SEARCH - 25)),
       File("page_at_tail_start.ogg",
            Stream(V0, 2, LE4(44100), LE8(2205000)) \o Zeros(TAIL_SEARCH - 27)),
       File("exactly_tail_size.ogg",
            FirstPage(V0, 2, LE4(44100)) \o Zeros(TAIL_SEARCH - 85)
                \o LastPage(LE8(2205000))),
       File("header_after_window.ogg",
            OggS \o Zeros(HEADER_READ) \o IdPacket(V0, 2, LE4(44100))
                \o LastPage(LE8(2205000))),
       File("marker_ends_window.ogg",
            OggS \o Zeros(HEADER_READ - 11) \o IdPacket(V0, 2, LE4(44100))
                \o LastPage(LE8(2205000))),
       File("version_cut_by_window.ogg",
            OggS \o Zeros(HEADER_READ - 12) \o IdPacket(V0, 2, LE4(44100))
                \o LastPage(LE8(2205000))),
       File("rate_cut_by_window.ogg",
            OggS \o Zeros(HEADER_READ - 18) \o IdPacket(V0, 2, <<64, 31, 1, 0>>)
                \o LastPage(LE8(2205000))),
       File("header_ends_window.ogg",
            OggS \o Zeros(HEADER_READ - 20) \o IdPacket(V0, 2, LE4(44100))
                \o LastPage(LE8(2205000))),
       File("bad_version_no_tail.ogg",
            FirstPage(LE4(1), 2, LE4(0)) \o Zeros(TAIL_SEARCH)) >>

\* File names are the indices of Files.
Names == DOMAIN Files

\* The files that occur in listings of more than one file.
BatchNames == 1..8

Bytes(k) == Files[k].bytes

\* os.listdir order is arbitrary and a folder lists a name once.
Listings ==
    {<<>>} \cup {<<k>> : k \in Names}
    \cup {s \in UNION {[1..n -> BatchNames] : n \in 2..MaxFiles} :
            \A i, j \in DOMAIN s : i # j => s[i] # s[j]}

-----------------------------------------------------------------------------
(* State *)

\* A buffer read from the source is the extent [lo, hi) of the file it was
\* read from: the source is opened 'rb' and never written.
NoBuffer == [lo |-> 0, hi |-> 0]

BufLen(x) == x.hi - x.lo

\* The bytes of the buffer x read from file k.
Buf(k, x) == SubSeq(Bytes(k), x.lo + 1, x.hi)

\* f.read(n) at position c of file k.
Read(k, c, n) ==
    [lo |-> Min(c, Len(Bytes(k))), hi |-> Max(Min(c, Len(Bytes(k))), Min(c + n, Len(Bytes(k))))]

\* The locals of calculate_duration.
NewFrame ==
    [ header_data       |-> NoBuffer,
      vorbis_header_pos |-> -1,
      pos               |-> 0,
      version           |-> <<>>,
      channels          |-> 0,
      sample_rate       |-> <<>>,
      file_size         |-> 0,
      search_size       |-> 0,
      data              |-> NoBuffer,
      last_oggs_pos     |-> 0,
      granule           |-> <<>> ]

NoDuration == [whole |-> <<>>, num |-> 0, den |-> 1]

\* The outcome of the current call of calculate_duration.
NoResult == [kind |-> "none", exc |-> "", msg |-> <<>>, duration |-> NoDuration]

Returned(d) == [kind |-> "return", exc |-> "", msg |-> <<>>, duration |-> d]

\* except Exception as e: raise ValueError(f"Error reading OGG file: {str(e)}")
WrapError(m) == <<"Error reading OGG file: ", m>>

ValueError(m) == [kind |-> "raise", exc |-> "ValueError", msg |-> WrapError(m), duration |-> NoDuration]

\* except FileNotFoundError: raise FileNotFoundError(f"File not found: {file_path}")
FileNotFoundError ==
    [kind |-> "raise", exc |-> "FileNotFoundError", msg |-> <<"File not found: ">>, duration |-> NoDuration]

\* str(e) of the exceptions raised inside the try block.  The version and
\* sample-rate messages end with the offending value, which is left out.
NotOgg == "Not a valid OGG file"

NoHeader == "Could not find Vorbis identification header"

BadVersion == "Unsupported Vorbis version: "

BadRate == "Invalid sample rate: "

IndexError == "index out of range"

NotFound == "subsection not found"

ZeroDivision == "division by zero"

OSErrorOpen == "[Errno 21] Is a directory"

OSErrorRead == "[Errno 5] Input/output error"

\* A source that is left as it is when the block is left.
WithExitLeak(h) == h

\* Leaving the with block, by return or by exception, closes the source.
WithExit(h) == "closed"

\* The file the loop is at.
ogg_file == ogg_files[it]

InCall ==
    {"sig", "header", "scan", "version", "channels", "rate", "size", "tail",
     "rindex", "granule", "divide"}

Init ==
    /\ ogg_files \in Listings
    /\ it = 0
    /\ pc = "start"
    /\ handle = "closed"
    /\ cursor = 0
    /\ frame = NewFrame
    /\ result = NoResult
    /\ out = <<>>
    /\ console = <<>>

\* An exception e raised inside the with block of calculate_duration.
Raise(m) ==
    /\ result' = ValueError(m)
    /\ handle' = WithExit(handle)
    /\ pc' = "caller"

\* with open(file_name, "w"): the three opening lines of description.ext.
WriteHeader ==
    /\ pc = "start"
    /\ out' = <<[line |-> "class CfgSounds { tracks[]={};", file |-> 0, duration |-> NoDuration]>>
    /\ pc' = "loop"
    /\ UNCHANGED <<ogg_files, it, handle, cursor, frame, result, console>>

\* for ogg_file in ogg_files: the next file, and the call of
\* calculate_duration on it.
NextFile ==
    /\ pc = "loop"
    /\ it < Len(ogg_files)
    /\ it' = it + 1
    /\ frame' = NewFrame
    /\ result' = NoResult
    /\ pc' = "open"
    /\ UNCHANGED <<ogg_files, handle, cursor, out, console>>

\* with open(file_path, 'rb') as f
OpenSource ==
    /\ pc = "open"
    /\ IF Files[ogg_file].fault = "missing"
       THEN /\ result' = FileNotFoundError
            /\ pc' = "caller"
            /\ UNCHANGED <<handle, cursor>>
       ELSE IF Files[ogg_file].fault = "open"
       THEN /\ result' = ValueError(OSErrorOpen)
            /\ pc' = "caller"
            /\ UNCHANGED <<handle, cursor>>
       ELSE /\ handle' = "open"
            /\ cursor' = 0
            /\ pc' = "sig"
            /\ UNCHANGED result
    /\ UNCHANGED <<ogg_files, it, frame, out, console>>

\* A comparison of the first three bytes only.
SignatureOkPrefix(sig) == PySlice(sig, 0, 3) = PySlice(OggS, 0, 3)

\* The signature f.read(4) is compared with.
SignatureOk(sig) == sig = OggS

\* if f.read(4) != b'OggS': raise ValueError("Not a valid OGG file")
ReadSignature ==
    /\ pc = "sig"
    /\ handle = "open"
    /\ IF Files[ogg_file].fault = "read"
       THEN Raise(OSErrorRead) /\ UNCHANGED cursor
       ELSE LET sig == Read(ogg_file, cursor, 4)
            IN  /\ cursor' = Max(cursor, sig.hi)
                /\ IF SignatureOk(Buf(ogg_file, sig))
                   THEN pc' = "header" /\ UNCHANGED <<handle, result>>
                   ELSE Raise(NotOgg)
    /\ UNCHANGED <<ogg_files, it, frame, out, console>>

\* f.seek(0); header_data = f.read(8192)
ReadHeaderData ==
    /\ pc = "header"
    /\ handle = "open"
    /\ LET hd == Read(ogg_file, 0, HEADER_READ)
       IN  /\ frame' = [frame EXCEPT !.header_data = hd]
           /\ cursor' = Max(0, hd.hi)
    /\ pc' = "scan"
    /\ UNCHANGED <<ogg_files, it, handle, result, out, console>>

\* The offsets the loop visits: range(len(header_data) - 7).
ScanRange(header_data) == 0..(Len(header_data) - 7 - 1)

\* header_data[i] == 1 and header_data[i+1:i+7] == b'vorbis'
IsIdHeader(header_data, i) ==
    /\ header_data[i + 1] = PACKET_TYPE_ID
    /\ PySlice(header_data, i + 1, i + 7) = Vorbis

\* The loop over i with break at the first match; -1 when none matches.
FindHeader(header_data) ==
    LET found == {i \in ScanRange(header_data) : IsIdHeader(header_data, i)}
    IN  IF found = {} THEN -1 ELSE SetMin(found)

ScanHeader ==
    /\ pc = "scan"
    /\ handle = "open"
    /\ LET p == FindHeader(Buf(ogg_file, frame.header_data))
       IN  IF p = -1
           THEN Raise(NoHeader) /\ UNCHANGED frame
           ELSE /\ frame' = [frame EXCEPT !.vorbis_header_pos = p, !.pos = p + 7]
                /\ pc' = "version"
                /\ UNCHANGED <<handle, result>>
    /\ UNCHANGED <<ogg_files, it, cursor, out, console>>

\* A check of the low byte of the version only.
SupportedVersionLowByte(version) == version = <<>> \/ version[1] = 0

\* if version != 0: raise ValueError
SupportedVersion(version) == version = <<>>

\* version = int.from_bytes(header_data[pos:pos+4], 'little')
ParseVersion ==
    /\ pc = "version"
    /\ handle = "open"
    /\ LET v == FromBytesLittle(PySlice(Buf(ogg_file, frame.header_data), frame.pos, frame.pos + 4))
       IN  /\ frame' = [frame EXCEPT !.version = v]
           /\ IF ~SupportedVersion(v)
              THEN Raise(BadVersion)
              ELSE pc' = "channels" /\ UNCHANGED <<handle, result>>
    /\ UNCHANGED <<ogg_files, it, cursor, out, console>>

\* channels = header_data[pos+4]: IndexError past the end of the buffer.
ParseChannels ==
    /\ pc = "channels"
    /\ handle = "open"
    /\ IF frame.pos + 4 >= BufLen(frame.header_data)
       THEN Raise(IndexError) /\ UNCHANGED frame
       ELSE /\ frame' = [frame EXCEPT !.channels = Buf(ogg_file, frame.header_data)[frame.pos + 4 + 1]]
            /\ pc' = "rate"
            /\ UNCHANGED <<handle, result>>
    /\ UNCHANGED <<ogg_files, it, cursor, out, console>>

\* Exclusive bounds: 8000 < sample_rate < 192000.
SaneRateExclusive(sample_rate) ==
    /\ BigLeq(Big(MIN_SAMPLE_RATE + 1), sample_rate)
    /\ BigLeq(sample_rate, Big(MAX_SAMPLE_RATE - 1))

\* 8000 <= sample_rate <= 192000
SaneRate(sample_rate) ==
    /\ BigLeq(Big(MIN_SAMPLE_RATE), sample_rate)
    /\ BigLeq(sample_rate, Big(MAX_SAMPLE_RATE))

\* sample_rate = int.from_bytes(header_data[pos+5:pos+9], 'little')
\* if not (8000 <= sample_rate <= 192000): raise ValueError
ParseSampleRate ==
    /\ pc = "rate"
    /\ handle = "open"
    /\ LET r == FromBytesLittle(PySlice(Buf(ogg_file, frame.header_data), frame.pos + 5, frame.pos + 9))
       IN  /\ frame' = [frame EXCEPT !.sample_rate = r]
           /\ IF ~SaneRate(r)
              THEN Raise(BadRate)
              ELSE pc' = "size" /\ UNCHANGED <<handle, result>>
    /\ UNCHANGED <<ogg_files, it, cursor, out, console>>

\* f.seek(0, 2); file_size = f.tell()
SeekEnd ==
    /\ pc = "size"
    /\ handle = "open"
    /\ cursor' = Len(Bytes(ogg_file))
    /\ frame' = [frame EXCEPT !.file_size = cursor']
    /\ pc' = "tail"
    /\ UNCHANGED <<ogg_files, it, handle, result, out, console>>

\* search_size = min(file_size, 65536); f.seek(-search_size, 2)
\* data = f.read(search_size)
ReadTail ==
    /\ pc = "tail"
    /\ handle = "open"
    /\ LET n == Min(frame.file_size, TAIL_SEARCH)
           d == Read(ogg_file, Len(Bytes(ogg_file)) - n, n)
       IN  /\ frame' = [frame EXCEPT !.search_size = n, !.data = d]
           /\ cursor' = Max(Len(Bytes(ogg_file)) - n, d.hi)
    /\ pc' = "rindex"
    /\ UNCHANGED <<ogg_files, it, handle, result, out, console>>

\* data.index(sub): the lowest offset of an occurrence.
IndexOf(data, sub) ==
    LET found == Occurrences(data, sub)
    IN  IF found = {} THEN -1 ELSE SetMin(found)

\* data.rindex(b'OggS'): the highest offset of an occurrence; -1 stands
\* for the ValueError raised when there is none.
RIndex(data, sub) ==
    LET found == Occurrences(data, sub)
    IN  IF found = {} THEN -1 ELSE SetMax(found)

\* last_oggs_pos = data.rindex(b'OggS')
\* f.seek(-search_size + last_oggs_pos, 2)
FindLastPage ==
    /\ pc = "rindex"
    /\ handle = "open"
    /\ LET p == RIndex(Buf(ogg_file, frame.data), OggS)
       IN  IF p = -1
           THEN Raise(NotFound) /\ UNCHANGED <<frame, cursor>>
           ELSE /\ frame' = [frame EXCEPT !.last_oggs_pos = p]
                /\ cursor' = Len(Bytes(ogg_file)) + (-frame.search_size + p)
                /\ pc' = "granule"
                /\ UNCHANGED <<handle, result>>
    /\ UNCHANGED <<ogg_files, it, out, console>>

\* f.seek(6, 1); granule = int.from_bytes(f.read(8), 'little')
ReadGranule ==
    /\ pc = "granule"
    /\ handle = "open"
    /\ LET g == Read(ogg_file, cursor + GRANULE_OFFSET, GRANULE_WIDTH)
       IN  /\ frame' = [frame EXCEPT !.granule = FromBytesLittle(Buf(ogg_file, g))]
           /\ cursor' = Max(cursor + GRANULE_OFFSET, g.hi)
    /\ pc' = "divide"
    /\ UNCHANGED <<ogg_files, it, handle, result, out, console>>

\* duration = granule / sample_rate; return duration
Divide ==
    /\ pc = "divide"
    /\ handle = "open"
    /\ IF frame.sample_rate = <<>>
       THEN Raise(ZeroDivision)
       ELSE /\ result' = Returned(TrueDiv(frame.granule, frame.sample_rate))
            /\ handle' = WithExit(handle)
            /\ pc' = "caller"
    /\ UNCHANGED <<ogg_files, it, cursor, frame, out, console>>

\* The exceptions the loop's handler catches: except ValueError as e.
Caught(exc) == exc = "ValueError"

\* print(f"Skipping file {ogg_file} due to error: {e}"); continue
SkipFile ==
    /\ pc = "caller"
    /\ result.kind = "raise"
    /\ Caught(result.exc)
    /\ console' = Append(console, [text |-> "Skipping file", file |-> ogg_file, msg |-> result.msg])
    /\ pc' = "loop"
    /\ UNCHANGED <<ogg_files, it, handle, cursor, frame, result, out>>

\* An exception the handler does not catch leaves the loop and the with
\* block of description.ext, and ends the script.
Propagate ==
    /\ pc = "caller"
    /\ result.kind = "raise"
    /\ ~Caught(result.exc)
    /\ pc' = "crashed"
    /\ UNCHANGED <<ogg_files, it, handle, cursor, frame, result, out, console>>

\* The class of the file: name, sound[] with the duration, titles[].  The
\* class is recorded under the file it is written for; track_name (the
\* name without extension, spaces replaced) is a function of that name.
WriteClass ==
    /\ pc = "caller"
    /\ result.kind = "return"
    /\ out' = Append(out, [line |-> "class", file |-> ogg_file, duration |-> result.duration])
    /\ pc' = "loop"
    /\ UNCHANGED <<ogg_files, it, handle, cursor, frame, result, console>>

\* file.write("};\n") after the loop.
WriteFooter ==
    /\ pc = "loop"
    /\ it = Len(ogg_files)
    /\ out' = Append(out, [line |-> "};", file |-> 0, duration |-> NoDuration])
    /\ pc' = "footer"
    /\ UNCHANGED <<ogg_files, it, handle, cursor, frame, result, console>>

\* print(f"File '{file_name}' has been created successfully.")
PrintDone ==
    /\ pc = "footer"
    /\ console' = Append(console, [text |-> "File has been created successfully.", file |-> 0, msg |-> <<>>])
    /\ pc' = "done"
    /\ UNCHANGED <<ogg_files, it, handle, cursor, frame, result, out>>

Next ==
    \/ WriteHeader
    \/ NextFile
    \/ OpenSource
    \/ ReadSignature
    \/ ReadHeaderData
    \/ ScanHeader
    \/ ParseVersion
    \/ ParseChannels
    \/ ParseSampleRate
    \/ SeekEnd
    \/ ReadTail
    \/ FindLastPage
    \/ ReadGranule
    \/ Divide
    \/ SkipFile
    \/ Propagate
    \/ WriteClass
    \/ WriteFooter
    \/ PrintDone

Spec == Init /\ [][Next]_vars

-----------------------------------------------------------------------------
(* What the properties say about a file, read off its bytes *)

\* The bytes pat lie in file k at offset p, entirely inside the file.
HoldsAt(k, p, pat) ==
    /\ p >= 0
    /\ p + Len(pat) <= Len(Bytes(k))
    /\ Bytes(k)[p + 1] = pat[1]
    /\ \A j \in 1..Len(pat) : Bytes(k)[p + j] = pat[j]

IdMarker == <<PACKET_TYPE_ID>> \o Vorbis

\* The first min(length, 8192) bytes and the last min(length, 65536).
HeaderWindow(k) == Min(Len(Bytes(k)), HEADER_READ)

TailStart(k) == Len(Bytes(k)) - Min(Len(Bytes(k)), TAIL_SEARCH)

\* Offsets of the markers that lie entirely inside the header window.
MarkersInWindow(k) ==
    {m \in 0..(HeaderWindow(k) - Len(IdMarker)) : HoldsAt(k, m, IdMarker)}

\* Offsets of the 'OggS' patterns that lie entirely inside the tail window.
PagesInTail(k) ==
    {p \in TailStart(k)..(Len(Bytes(k)) - Len(OggS)) : HoldsAt(k, p, OggS)}

\* The byte of file k at offset o, 0 past the end of the file.
ByteAt(k, o) == IF o < Len(Bytes(k)) THEN Bytes(k)[o + 1] ELSE 0

\* Digit j of a Big number.
Digit(d, j) == IF j < Len(d) THEN d[j + 1] ELSE 0

\* d is the unsigned little-endian value of the bytes of file k at
\* offsets [p, p + w) that lie below the limit, the others counting as 0.
IsLittleEndianAt(d, k, p, w, limit) ==
    /\ Len(d) <= w
    /\ \A j \in 0..(w - 1) :
          Digit(d, j) = IF p + j < limit THEN ByteAt(k, p + j) ELSE 0

\* The w bytes of file k at offset p, as a Big number.
LittleEndianAt(k, p, w) == StripHighZeros(SubSeq(Bytes(k), p + 1, p + w))

\* The four bytes at offset p are a sample rate in 8000..192000.
RateInRangeAt(k, p) ==
    /\ ByteAt(k, p + 3) = 0
    /\ ByteAt(k, p) + 256 * ByteAt(k, p + 1) + 65536 * ByteAt(k, p + 2)
          \in MIN_SAMPLE_RATE..MAX_SAMPLE_RATE

\* d * r + c on a Big number d and small naturals r and c.
RECURSIVE MulAdd(_, _, _)
MulAdd(d, r, c) ==
    IF d = <<>> THEN Big(c)
    ELSE LET t == d[1] * r + c
         IN  <<t % 256>> \o MulAdd(Tail(d), r, t \div 256)

\* q is exactly g / r: q.whole * r + q.num * (r / q.den) = g, with
\* q.num / q.den a proper fraction in lowest terms.
IsQuotient(q, g, r) ==
    /\ q.den > 0
    /\ r % q.den = 0
    /\ q.num >= 0
    /\ q.num < q.den
    /\ GCD(q.den, q.num) = 1
    /\ StripHighZeros(MulAdd(q.whole, r, q.num * (r \div q.den))) = g

Fifty == [whole |-> <<50>>, num |-> 0, den |-> 1]

\* The current call has ended and its outcome is with the loop.
CallEnded == pc = "caller" /\ Files[ogg_file].fault = "none"

-----------------------------------------------------------------------------
(* C1 *)

\* File k starts with 'OggS'; its first marker in the header window is
\* followed, below the limit, by a whole version of 0, a channel count and
\* a whole sample rate in 8000..192000; and the last 'OggS' of the tail
\* window is followed by a whole granule position.
StreamOk(k, limit) ==
    /\ HoldsAt(k, 0, OggS)
    /\ MarkersInWindow(k) # {}
    /\ LET m == SetMin(MarkersInWindow(k))
       IN  /\ m + 16 <= limit
           /\ \A j \in 0..3 : ByteAt(k, m + 7 + j) = 0
           /\ RateInRangeAt(k, m + 12)
    /\ PagesInTail(k) # {}
    /\ SetMax(PagesInTail(k)) + GRANULE_OFFSET + GRANULE_WIDTH <= Len(Bytes(k))

RateOf(k) == LittleEndianAt(k, SetMin(MarkersInWindow(k)) + 12, 4)

GranuleOf(k) == LittleEndianAt(k, SetMax(PagesInTail(k)) + GRANULE_OFFSET, GRANULE_WIDTH)

ReturnsQuotient(k) ==
    /\ result.kind = "return"
    /\ IsQuotient(result.duration, GranuleOf(k), ToInt(RateOf(k)))
    /\ (RateOf(k) = Big(44100) /\ GranuleOf(k) = Big(2205000)) => result.duration = Fifty

\* C1 as stated: whenever the stream starts with 'OggS', the first marker
\* in the first 8192 bytes is followed in the stream by version 0 and a
\* sample rate R in 8000..192000, and the last 'OggS' of the tail window is
\* followed by the granule position G, the call returns exactly G / R.
C1_AsStated ==
    (CallEnded /\ StreamOk(ogg_file, Len(Bytes(ogg_file)))) => ReturnsQuotient(ogg_file)

\* C1, amended: the same, for the streams whose version, channel count and
\* sample rate (the 9 bytes after the marker) also lie inside the first
\* 8192 bytes; R = 44100 and G = 2205000 give 50.
C1_ReturnsGranuleOverRate ==
    (CallEnded /\ StreamOk(ogg_file, HeaderWindow(ogg_file))) => ReturnsQuotient(ogg_file)

\* A 44100 Hz stream of granule 2205000 whose identification header ends
\* with the 8192nd byte has returned 50.
C1_Witness ==
    /\ CallEnded
    /\ result.kind = "return"
    /\ result.duration = Fifty
    /\ StreamOk(ogg_file, HeaderWindow(ogg_file))
    /\ SetMin(MarkersInWindow(ogg_file)) + 16 = HEADER_READ
    /\ RateOf(ogg_file) = Big(44100)
    /\ GranuleOf(ogg_file) = Big(2205000)

-----------------------------------------------------------------------------
(* C2 *)

\* C2: a file whose first 4 bytes are not 'OggS' (a file shorter than 4
\* bytes included) never gets past the signature check, and its call ends
\* with the error "Not a valid OGG file" and without a duration.
C2_SignatureRejected ==
    /\ pc \in (InCall \ {"sig"}) => HoldsAt(ogg_file, 0, OggS)
    /\ (CallEnded /\ ~HoldsAt(ogg_file, 0, OggS)) => result = ValueError(NotOgg)

\* A file that holds an identification header and a final page after a
\* wrong signature has been rejected.
C2_Witness ==
    /\ CallEnded
    /\ result = ValueError(NotOgg)
    /\ ~HoldsAt(ogg_file, 0, OggS)
    /\ MarkersInWindow(ogg_file) # {}
    /\ PagesInTail(ogg_file) # {}

-----------------------------------------------------------------------------
(* C3 *)

\* C3 as stated: the call on a file shorter than 27 bytes, or on a file
\* with no 'OggS' inside its last 64 KiB, ends with an error and never
\* with a duration.
C3_AsStated ==
    (CallEnded /\ (Len(Bytes(ogg_file)) < 27 \/ PagesInTail(ogg_file) = {}))
        => result.kind = "raise"

-----------------------------------------------------------------------------
(* C4 *)

\* The marker the call has matched, and the fields read after it.
Matched == frame.vorbis_header_pos # -1

\* A field of the matched header is cut by the end of the header buffer,
\* or the granule position of the last page is cut by the end of the file.
FieldCut(k) ==
    \/ frame.vorbis_header_pos + 16 > HeaderWindow(k)
    \/ /\ PagesInTail(k) # {}
       /\ SetMax(PagesInTail(k)) + GRANULE_OFFSET + GRANULE_WIDTH > Len(Bytes(k))

\* C4 as stated: when fewer bytes are available than the version, the
\* channel count, the sample rate or the granule position needs, the call
\* ends with an error and not with a duration computed from the shorter
\* slice.
C4_AsStated ==
    (CallEnded /\ Matched /\ FieldCut(ogg_file)) => result.kind = "raise"

-----------------------------------------------------------------------------
(* C5 *)

\* A byte of the version field after the matched marker is not 0.
MatchedVersionNonZero(k) ==
    /\ Matched
    /\ \E j \in 0..3 :
          /\ frame.vorbis_header_pos + 7 + j < HeaderWindow(k)
          /\ ByteAt(k, frame.vorbis_header_pos + 7 + j) # 0

\* C5: when the version that follows the matched marker is not 0, the call
\* reaches neither the channel count, the sample-rate check nor the tail
\* scan, and ends with the error "Unsupported Vorbis version" and without
\* a duration, whatever the sample rate and the tail of the file are.
C5_VersionGate ==
    /\ pc \in {"channels", "rate", "size", "tail", "rindex", "granule", "divide"}
          => ~MatchedVersionNonZero(ogg_file)
    /\ (CallEnded /\ MatchedVersionNonZero(ogg_file)) => result = ValueError(BadVersion)

\* A file of version 1 with an implausible sample rate and no 'OggS' in
\* its last 64 KiB has been rejected for its version.
C5_Witness ==
    /\ CallEnded
    /\ result = ValueError(BadVersion)
    /\ MatchedVersionNonZero(ogg_file)
    /\ ~RateInRangeAt(ogg_file, frame.vorbis_header_pos + 12)
    /\ PagesInTail(ogg_file) = {}

-----------------------------------------------------------------------------
(* C6 *)

\* File k is valid but for its sample rate: StreamOk without the range.
OtherwiseValid(k) ==
    /\ HoldsAt(k, 0, OggS)
    /\ MarkersInWindow(k) # {}
    /\ LET m == SetMin(MarkersInWindow(k))
       IN  /\ m + 16 <= HeaderWindow(k)
           /\ \A j \in 0..3 : ByteAt(k, m + 7 + j) = 0
    /\ PagesInTail(k) # {}
    /\ SetMax(PagesInTail(k)) + GRANULE_OFFSET + GRANULE_WIDTH <= Len(Bytes(k))

\* whole + num/den >= 0
NonNegative(q) ==
    /\ q.num >= 0
    /\ q.den > 0
    /\ \A i \in DOMAIN q.whole : q.whole[i] \in 0..255

\* C6: the bound on the sample rate is inclusive.  A stream that is valid
\* but for its rate yields a duration when the rate is in 8000..192000 (8000
\* and 192000 included) and the error "Invalid sample rate" otherwise
\* (7999, 192001 and 0 included); the division is reached only with a rate
\* in 8000..192000, so never with divisor 0, and a returned duration is
\* never negative.
C6_SampleRateBound ==
    /\ pc \in {"size", "tail", "rindex", "granule", "divide"}
          => /\ Len(frame.sample_rate) <= 3
             /\ ToInt(frame.sample_rate) \in MIN_SAMPLE_RATE..MAX_SAMPLE_RATE
             /\ ToInt(frame.sample_rate) # 0
    /\ (CallEnded /\ OtherwiseValid(ogg_file))
          => IF RateInRangeAt(ogg_file, SetMin(MarkersInWindow(ogg_file)) + 12)
             THEN result.kind = "return"
             ELSE result = ValueError(BadRate)
    /\ (pc = "caller" /\ result.kind = "return") => NonNegative(result.duration)

\* The class of file k has been written.
HasClass(k) == \E i \in DOMAIN out : out[i].line = "class" /\ out[i].file = k

\* A file of rate 7999 has been rejected for its rate after the classes of
\* a file of rate 8000 and of a file of rate 192000 have been written.
C6_Witness ==
    /\ CallEnded
    /\ result = ValueError(BadRate)
    /\ OtherwiseValid(ogg_file)
    /\ frame.sample_rate = Big(MIN_SAMPLE_RATE - 1)
    /\ \E a, b \in BatchNames :
          /\ HasClass(a) /\ Files[a].fault = "none" /\ OtherwiseValid(a)
          /\ RateOf(a) = Big(MIN_SAMPLE_RATE)
          /\ HasClass(b) /\ Files[b].fault = "none" /\ OtherwiseValid(b)
          /\ RateOf(b) = Big(MAX_SAMPLE_RATE)

-----------------------------------------------------------------------------
(* C7 *)

\* The script has ended: normally, or by an exception that left the loop.
Terminated == pc \in {"done", "crashed"}

\* C7 as stated: whatever error calculate_duration raises on a file, the
\* batch is not aborted: the file gets no class, every file of the listing
\* has been visited when the script ends, and the script ends with the
\* closing line written.
C7_AsStated ==
    /\ Terminated
          => /\ it = Len(ogg_files)
             /\ out # <<>>
             /\ out[Len(out)].line = "};"
    /\ \A i \in DOMAIN console :
          console[i].text = "Skipping file" => ~HasClass(console[i].file)

-----------------------------------------------------------------------------
(* C8 *)

\* C8: the source is open exactly while calculate_duration is between its
\* open() and its return or raise: every read and seek finds it open, and
\* it is closed when the outcome reaches the loop, on the success path and
\* on every failure path, so no handle is open across calls.
C8_SourceClosed ==
    /\ pc \in InCall => handle = "open"
    /\ pc \notin InCall => handle = "closed"

\* A call that read the header buffer has failed, after an earlier call
\* has returned, and the source is closed.
C8_Witness ==
    /\ pc = "caller"
    /\ handle = "closed"
    /\ result.kind = "raise"
    /\ result.exc = "ValueError"
    /\ BufLen(frame.header_data) > 0
    /\ \E i \in DOMAIN out : out[i].line = "class"

-----------------------------------------------------------------------------
(* C9 *)

\* C9 as stated: the scan uses the lowest offset of a marker that lies
\* entirely inside the header buffer, and the call fails with "Could not
\* find Vorbis identification header" exactly when no marker lies entirely
\* inside the buffer.
C9_AsStated ==
    /\ pc \in {"version", "channels", "rate", "size", "tail", "rindex", "granule", "divide"}
          => /\ MarkersInWindow(ogg_file) # {}
             /\ frame.vorbis_header_pos = SetMin(MarkersInWindow(ogg_file))
    /\ (CallEnded /\ HoldsAt(ogg_file, 0, OggS))
          => (result = ValueError(NoHeader) <=> MarkersInWindow(ogg_file) = {})

-----------------------------------------------------------------------------
(* C10 *)

\* C10: the tail scan selects the highest offset p of an 'OggS' that lies
\* entirely inside the last min(length, 65536) bytes, the source is
\* positioned at p, and the granule position is the unsigned little-endian
\* value of the bytes at the file offsets [p + 6, p + 14) (bytes past the
\* end of the file count as absent).
C10_LastPageGranule ==
    (pc \in {"granule", "divide"} \/ (pc = "caller" /\ result.kind = "return"))
        => /\ PagesInTail(ogg_file) # {}
           /\ TailStart(ogg_file) + frame.last_oggs_pos = SetMax(PagesInTail(ogg_file))
           /\ pc = "granule" => cursor = SetMax(PagesInTail(ogg_file))
           /\ pc # "granule" =>
                 IsLittleEndianAt(frame.granule, ogg_file,
                                  SetMax(PagesInTail(ogg_file)) + GRANULE_OFFSET,
                                  GRANULE_WIDTH, Len(Bytes(ogg_file)))

\* The granule position has been read from the last page of a file longer
\* than 64 KiB that holds, before the tail window, a page with another
\* granule position.
C10_Witness ==
    /\ pc = "divide"
    /\ Len(Bytes(ogg_file)) > TAIL_SEARCH
    /\ frame.granule = Big(2205000)
    /\ \E q \in 1..(TailStart(ogg_file) - 1) :
          /\ HoldsAt(ogg_file, q, OggS)
          /\ LittleEndianAt(ogg_file, q + GRANULE_OFFSET, GRANULE_WIDTH) # frame.granule

====
